---- MODULE Spec2Model ----
(***************************************************************************)
(* The cursor / vector-field edit engine of sphereflow/particles           *)
(* (cursor.rs, grid.rs), together with the part of the camera rig          *)
(* (camera.rs) and of the application glue (main.rs) that feeds it.        *)
(*                                                                         *)
(* f32 values are fixed-point numbers with Q units per 1.0; a division or  *)
(* a square root rounds toward zero.  NaN, +Inf and -Inf are kept as       *)
(* distinguished values with the IEEE-754 rules for + - * / sqrt < ==.     *)
(* Vec<T> is a sequence; Rust's 0-based index ix is element ix + 1.        *)
(* Option<T> is <<>> (None) or <<t>> (Some(t)).                            *)
(***************************************************************************)
EXTENDS Integers, Sequences, FiniteSets, TLC

-----------------------------------------------------------------------------
(* f32 *)

Q == 100

One == Q
Zero == 0 * Q
Half == Q \div 2

PInf == 1000000 * Q
NInf == -PInf
NaN == PInf + 1

F(n) == n * Q

IsNaN(a) == a = NaN
IsInf(a) == a = PInf \/ a = NInf
IsFinite(a) == ~IsNaN(a) /\ ~IsInf(a)

Abs(n) == IF n < 0 THEN -n ELSE n
Sign(n) == IF n < 0 THEN -1 ELSE IF n > 0 THEN 1 ELSE 0

\* integer division rounding toward zero
TruncDiv(n, d) == Sign(n) * Sign(d) * (Abs(n) \div Abs(d))

\* the largest r in lo..hi with r * r <= n, by bisection
RECURSIVE ISqrtBetween(_, _, _)
ISqrtBetween(n, lo, hi) ==
    IF lo >= hi THEN lo
    ELSE LET mid == (lo + hi + 1) \div 2
         IN  IF mid * mid <= n THEN ISqrtBetween(n, mid, hi)
             ELSE ISqrtBetween(n, lo, mid - 1)

\* floor of the square root of a natural number
ISqrt(n) == ISqrtBetween(n, 0, IF n < 46340 THEN n ELSE 46340)

FNeg(a) == IF IsNaN(a) THEN NaN ELSE -a

FAdd(a, b) ==
    IF IsNaN(a) \/ IsNaN(b) THEN NaN
    ELSE IF IsInf(a) /\ IsInf(b) THEN (IF a = b THEN a ELSE NaN)
    ELSE IF IsInf(a) THEN a
    ELSE IF IsInf(b) THEN b
    ELSE a + b

FSub(a, b) == FAdd(a, FNeg(b))

FMul(a, b) ==
    IF IsNaN(a) \/ IsNaN(b) THEN NaN
    ELSE IF IsInf(a) \/ IsInf(b)
         THEN (IF a = 0 \/ b = 0 THEN NaN
               ELSE IF Sign(a) * Sign(b) > 0 THEN PInf ELSE NInf)
    ELSE TruncDiv(a * b, Q)

FDiv(a, b) ==
    IF IsNaN(a) \/ IsNaN(b) THEN NaN
    ELSE IF IsInf(a) /\ IsInf(b) THEN NaN
    ELSE IF IsInf(a) THEN (IF Sign(a) * Sign(b) >= 0 THEN PInf ELSE NInf)
    ELSE IF IsInf(b) THEN 0
    ELSE IF b = 0 THEN (IF a = 0 THEN NaN ELSE IF a > 0 THEN PInf ELSE NInf)
    ELSE TruncDiv(a * Q, b)

FSqrt(a) ==
    IF IsNaN(a) \/ a < 0 THEN NaN
    ELSE IF a = PInf THEN PInf
    ELSE ISqrt(a * Q)

\* f32 comparison: every comparison with NaN is false
FLt(a, b) == ~IsNaN(a) /\ ~IsNaN(b) /\ a < b
FEq(a, b) == ~IsNaN(a) /\ ~IsNaN(b) /\ a = b

-----------------------------------------------------------------------------
(* cgmath Vector3<f32> and Matrix3<f32> (a matrix is its three columns) *)

V3(x, y, z) == <<x, y, z>>
zero_v3 == V3(Zero, Zero, Zero)

VAdd(a, b) == <<FAdd(a[1], b[1]), FAdd(a[2], b[2]), FAdd(a[3], b[3])>>
VSub(a, b) == <<FSub(a[1], b[1]), FSub(a[2], b[2]), FSub(a[3], b[3])>>
VNeg(a) == <<FNeg(a[1]), FNeg(a[2]), FNeg(a[3])>>
VScale(a, s) == <<FMul(a[1], s), FMul(a[2], s), FMul(a[3], s)>>
VEq(a, b) == FEq(a[1], b[1]) /\ FEq(a[2], b[2]) /\ FEq(a[3], b[3])

Dot(a, b) == FAdd(FAdd(FMul(a[1], b[1]), FMul(a[2], b[2])), FMul(a[3], b[3]))

Cross(a, b) ==
    << FSub(FMul(a[2], b[3]), FMul(a[3], b[2])),
       FSub(FMul(a[3], b[1]), FMul(a[1], b[3])),
       FSub(FMul(a[1], b[2]), FMul(a[2], b[1])) >>

Magnitude(a) == FSqrt(Dot(a, a))

\* InnerSpace::normalize: self * (1 / self.magnitude()), each component rounded once
Normalize(a) ==
    LET m == Magnitude(a)
    IN  <<FDiv(a[1], m), FDiv(a[2], m), FDiv(a[3], m)>>

\* MetricSpace::distance
Distance(a, b) == Magnitude(VSub(b, a))

Identity3 == << V3(One, Zero, Zero), V3(Zero, One, Zero), V3(Zero, Zero, One) >>

Transpose(m) ==
    << V3(m[1][1], m[2][1], m[3][1]),
       V3(m[1][2], m[2][2], m[3][2]),
       V3(m[1][3], m[2][3], m[3][3]) >>

None == <<>>
Some(x) == <<x>>
IsSome(o) == o # <<>>
Unwrap(o) == o[1]

\* Vec<T> indexing with a 0-based index
At(vec, ix) == vec[ix + 1]

Min(a, b) == IF a < b THEN a ELSE b

-----------------------------------------------------------------------------
(* grid.rs *)

\* SimParams::new: bounding_volume_radius
bounding_volume_radius == 10

\* grid dimensions: one row of NX cells (the application uses 10 x 10 x 10)
NX == 2
vector_field_dimensions == <<NX, 1, 1>>

\* Bounds::left, bottom, front
left(b) == b.pos[1]
bottom(b) == b.pos[2]
front(b) == b.pos[3]

\* Bounds::set_centered
set_centered(b, bbs) ==
    [b EXCEPT !.pos = VScale(V3(FNeg(bbs), FNeg(bbs), FNeg(bbs)), Half),
              !.dir = V3(bbs, bbs, bbs)]

\* Grid::new_uniform
new_uniform(n_x, n_y, n_z, bounds, t) ==
    [grid |-> [n \in 1..(n_x * n_y * n_z) |-> t],
     size |-> <<n_x, n_y, n_z>>,
     bounds |-> bounds]

\* the nested loops of Grid::new_centered, from (i_x, i_y, i_z) on
RECURSIVE new_centered_loop(_, _, _, _, _)
new_centered_loop(n, center, i_x, i_y, i_z) ==
    IF i_x >= n[1] THEN <<>>
    ELSE IF i_y >= n[2] THEN new_centered_loop(n, center, i_x + 1, 0, 0)
    ELSE IF i_z >= n[3] THEN new_centered_loop(n, center, i_x, i_y + 1, 0)
    ELSE <<VSub(center, V3(F(i_x), F(i_y), F(i_z)))>>
         \o new_centered_loop(n, center, i_x, i_y, i_z + 1)

\* Grid::new_centered
new_centered(n_x, n_y, n_z, bounds) ==
    [grid |-> new_centered_loop(<<n_x, n_y, n_z>>,
                                VScale(V3(F(n_x), F(n_y), F(n_z)), Half), 0, 0, 0),
     size |-> <<n_x, n_y, n_z>>,
     bounds |-> bounds]

\* Grid::num_instances
num_instances(g) == g.size[1] * g.size[2] * g.size[3]

\* the position pushed by Grid::get_positions for (i_x, i_y, i_z)
cell_position(g, i_x, i_y, i_z) ==
    << FAdd(left(g.bounds),
            FMul(g.bounds.dir[1], FDiv(FAdd(F(i_x), Half), F(g.size[1])))),
       FAdd(bottom(g.bounds),
            FMul(g.bounds.dir[2], FDiv(FAdd(F(i_y), Half), F(g.size[2])))),
       FAdd(front(g.bounds),
            FMul(g.bounds.dir[3], FDiv(FAdd(F(i_z), Half), F(g.size[3])))),
       One >>

\* the nested loops of Grid::get_positions, from (i_x, i_y, i_z) on
RECURSIVE get_positions_loop(_, _, _, _)
get_positions_loop(g, i_x, i_y, i_z) ==
    IF i_x >= g.size[1] THEN <<>>
    ELSE IF i_y >= g.size[2] THEN get_positions_loop(g, i_x + 1, 0, 0)
    ELSE IF i_z >= g.size[3] THEN get_positions_loop(g, i_x, i_y + 1, 0)
    ELSE <<cell_position(g, i_x, i_y, i_z)>> \o get_positions_loop(g, i_x, i_y, i_z + 1)

\* a variant of Grid::get_positions with the z loop outermost and the x loop
\* innermost
get_positions_z_outer(g) ==
    [n \in 1..num_instances(g) |->
        cell_position(g, (n - 1) % g.size[1],
                         ((n - 1) \div g.size[1]) % g.size[2],
                         (n - 1) \div (g.size[1] * g.size[2]))]

\* Grid::get_positions
get_positions(g) == get_positions_loop(g, 0, 0, 0)

\* Grid::get_instances: positions zipped with the values, as (pos, dir) pairs
get_instances(g) ==
    LET positions == get_positions(g)
    IN  [n \in 1..Min(Len(positions), Len(g.grid)) |->
            << V3(positions[n][1], positions[n][2], positions[n][3]), g.grid[n] >>]

\* a variant of the floats of one cell with the two tints exchanged
instance_raw_dim_selected(pos, dir, selected) ==
    <<pos[1], pos[2], pos[3], pos[4], dir[1], dir[2], dir[3], One>>
        \o (IF selected THEN <<Half, Half, Half, Q \div 5>> ELSE <<One, One, One, One>>)

\* the floats the closure of Grid::get_instances_raw emits for one cell
instance_raw(pos, dir, selected) ==
    <<pos[1], pos[2], pos[3], pos[4], dir[1], dir[2], dir[3], One>>
        \o (IF selected THEN <<One, One, One, One>> ELSE <<Half, Half, Half, Q \div 5>>)

\* the flat_map of Grid::get_instances_raw over the enumerated, zipped positions
\* and values, from ix on
RECURSIVE get_instances_raw_loop(_, _, _, _)
get_instances_raw_loop(positions, g, index_set, ix) ==
    IF ix >= Min(Len(positions), Len(g.grid)) THEN <<>>
    ELSE instance_raw(At(positions, ix), At(g.grid, ix), ix \in index_set)
         \o get_instances_raw_loop(positions, g, index_set, ix + 1)

\* Grid::get_instances_raw
get_instances_raw(g, selected_indices) ==
    get_instances_raw_loop(get_positions(g), g,
                           {selected_indices[n] : n \in 1..Len(selected_indices)}, 0)

\* the loop of Grid::get_indices over the enumerated instances, from ix on
RECURSIVE get_indices_loop(_, _, _, _)
get_indices_loop(instances, center, radius, ix) ==
    IF ix >= Len(instances) THEN <<>>
    ELSE (IF FLt(Distance(At(instances, ix)[1], center), radius) THEN <<ix>> ELSE <<>>)
         \o get_indices_loop(instances, center, radius, ix + 1)

\* a variant of Grid::get_indices that also returns the cells at distance radius
get_indices_inclusive(g, center, radius) ==
    LET instances == get_instances(g)
    IN  SelectSeq([n \in 1..Len(instances) |-> n - 1],
                  LAMBDA ix : ~FLt(radius, Distance(At(instances, ix)[1], center)))

\* Grid::get_indices
get_indices(g, center, radius) ==
    get_indices_loop(get_instances(g), center, radius, 0)

-----------------------------------------------------------------------------
(* cursor.rs: EditMode *)

EditModeE == {"Centered", "Shift", "Rotate"}
RelAbE == {"Relative", "Absolute"}
Falloff == {"Abrupt", "Linear", "InverseDistance"}

\* impl Default for EditMode
EditMode_default ==
    [mode |-> "Shift", ra |-> "Relative", falloff |-> "Abrupt",
     falloff_dist |-> One, strength |-> One]

\* a variant of the match on self.mode whose Shift arm measures from the cell
\* instead of from the anchor
get_vector_mode_from_cell(self, v, v_pos, md_pos, cursor_pos, cam_rot) ==
    LET cam_dir == cam_rot[3]
        cam_right == cam_rot[1]
    IN  CASE self.mode = "Centered" -> Normalize(VSub(cursor_pos, v_pos))
          [] self.mode = "Shift" -> VSub(cursor_pos, v_pos)
          [] self.mode = "Rotate" ->
                IF VEq(cursor_pos, md_pos) THEN v
                ELSE LET dc == VSub(cursor_pos, md_pos)
                         dv == Normalize(VSub(v_pos, md_pos))
                         dir == Cross(dv, cam_dir)
                     IN  VScale(dir, Dot(dc, cam_right))

\* the match on self.mode in EditMode::get_vector
get_vector_mode(self, v, v_pos, md_pos, cursor_pos, cam_rot) ==
    LET cam_dir == cam_rot[3]
        cam_right == cam_rot[1]
    IN  CASE self.mode = "Centered" -> Normalize(VSub(cursor_pos, v_pos))
          [] self.mode = "Shift" -> VSub(cursor_pos, md_pos)
          [] self.mode = "Rotate" ->
                IF VEq(cursor_pos, md_pos) THEN v
                ELSE LET dc == VSub(cursor_pos, md_pos)
                         dv == Normalize(VSub(v_pos, md_pos))
                         dir == Cross(dv, cam_dir)
                     IN  VScale(dir, Dot(dc, cam_right))

\* the match on self.falloff in EditMode::get_vector
get_vector_falloff(self, res, v_pos, md_pos) ==
    LET res_len == Magnitude(res)
    IN  CASE self.falloff = "Abrupt" -> res
          [] self.falloff = "Linear" ->
                LET mag == Magnitude(VSub(md_pos, v_pos))
                    factor == FDiv(mag, self.falloff_dist)
                IN  VScale(res, FSub(One, factor))
          [] self.falloff = "InverseDistance" ->
                VScale(res, FDiv(self.falloff_dist, FAdd(res_len, One)))

\* EditMode::get_vector
get_vector(self, v, v_pos, md_pos, cursor_pos, cam_rot) ==
    VScale(get_vector_falloff(self,
                get_vector_mode(self, v, v_pos, md_pos, cursor_pos, cam_rot),
                v_pos, md_pos),
           self.strength)

-----------------------------------------------------------------------------
(* cursor.rs: Cursor *)

\* Cursor::new
Cursor_new ==
    [pos |-> zero_v3,
     rot |-> Identity3,
     distance_from_camera |-> F(5),
     modify_vector_indices |-> <<>>,
     mouse_down_vectors |-> <<>>,
     mouse_down_on |-> None,
     mouse_pos_x |-> Zero,
     mouse_pos_y |-> Zero,
     edit_mode |-> EditMode_default]

\* a variant of Cursor::update that moves the anchor of a drag to the new pos
Cursor_update_reanchors(self, screen_width, screen_height, camera_position, rot) ==
    LET swh == FMul(screen_width, Half)
        shh == FMul(screen_height, Half)
        aspect == FDiv(screen_width, screen_height)
        rotm == Transpose(rot)
        offset == VAdd(VAdd(VNeg(rotm[3]),
                            VScale(VScale(rotm[1], aspect),
                                   FDiv(FSub(self.mouse_pos_x, swh), swh))),
                       VScale(rotm[2], FDiv(FAdd(FNeg(self.mouse_pos_y), shh), shh)))
        res == VAdd(VNeg(camera_position), VScale(offset, self.distance_from_camera))
    IN  [self EXCEPT !.pos = res, !.rot = rotm,
                     !.mouse_down_on = IF IsSome(@) THEN Some(<<res, rotm>>) ELSE @]

\* Cursor::update; rot is the rotation matrix of the camera's quaternion
Cursor_update(self, screen_width, screen_height, camera_position, rot) ==
    LET swh == FMul(screen_width, Half)
        shh == FMul(screen_height, Half)
        aspect == FDiv(screen_width, screen_height)
        mouse_x == self.mouse_pos_x
        mouse_y == self.mouse_pos_y
        rotm == Transpose(rot)
        right == rotm[1]
        up == rotm[2]
        dir == VNeg(rotm[3])
        offset == VAdd(VAdd(dir,
                            VScale(VScale(right, aspect),
                                   FDiv(FSub(mouse_x, swh), swh))),
                       VScale(up, FDiv(FAdd(FNeg(mouse_y), shh), shh)))
        res == VAdd(VNeg(camera_position), VScale(offset, self.distance_from_camera))
    IN  [self EXCEPT !.pos = res, !.rot = rotm]

IsControl(key) == key \in {"LControl", "RControl"}
IsShift(key) == key \in {"LShift", "RShift"}

\* the loop over keys in Cursor::process_input, from the n-th key on
RECURSIVE process_input_loop(_, _, _)
process_input_loop(mode, keys, n) ==
    IF n > Len(keys) THEN mode
    ELSE process_input_loop(IF IsControl(keys[n]) THEN "Rotate"
                            ELSE IF IsShift(keys[n]) THEN "Shift"
                            ELSE mode,
                            keys, n + 1)

\* a variant of Cursor::process_input in which a control key wins over a shift key
\* whatever the order of the keys
Cursor_process_input_control_first(self, keys) ==
    [self EXCEPT
        !.edit_mode.ra = IF \E n \in 1..Len(keys) : keys[n] = "Space"
                         THEN "Absolute" ELSE "Relative",
        !.edit_mode.mode = IF \E n \in 1..Len(keys) : IsControl(keys[n]) THEN "Rotate"
                           ELSE IF \E n \in 1..Len(keys) : IsShift(keys[n]) THEN "Shift"
                           ELSE "Centered"]

\* Cursor::process_input
Cursor_process_input(self, keys) ==
    [self EXCEPT
        !.edit_mode.ra = IF \E n \in 1..Len(keys) : keys[n] = "Space"
                         THEN "Absolute" ELSE "Relative",
        !.edit_mode.mode = process_input_loop("Centered", keys, 1)]

\* a variant of the written value with the arms of the match on self.edit_mode.ra
\* exchanged
mouse_moved_value_swapped(self, v_pos_dir, md_pos, ix, md_v) ==
    LET displacement == get_vector(self.edit_mode, At(v_pos_dir, ix)[2],
                                   At(v_pos_dir, ix)[1], md_pos, self.pos, self.rot)
    IN  IF self.edit_mode.ra = "Absolute" THEN VAdd(displacement, md_v)
        ELSE displacement

\* a variant of the written value that adds the displacement to the value the
\* cell has now instead of to the value captured by mouse_down
mouse_moved_value_accumulates(self, v_pos_dir, md_pos, ix, md_v) ==
    LET displacement == get_vector(self.edit_mode, At(v_pos_dir, ix)[2],
                                   At(v_pos_dir, ix)[1], md_pos, self.pos, self.rot)
    IN  IF self.edit_mode.ra = "Relative" THEN VAdd(displacement, At(v_pos_dir, ix)[2])
        ELSE displacement

\* the value one iteration of the loop of Cursor::mouse_moved writes
mouse_moved_value(self, v_pos_dir, md_pos, ix, md_v) ==
    LET displacement == get_vector(self.edit_mode, At(v_pos_dir, ix)[2],
                                   At(v_pos_dir, ix)[1], md_pos, self.pos, self.rot)
    IN  IF self.edit_mode.ra = "Relative" THEN VAdd(displacement, md_v)
        ELSE displacement

\* the loop of Cursor::mouse_moved over the zipped lists, from the n-th pair on
RECURSIVE mouse_moved_loop(_, _, _, _, _)
mouse_moved_loop(self, values, v_pos_dir, md_pos, n) ==
    IF n > Min(Len(self.modify_vector_indices), Len(self.mouse_down_vectors))
    THEN values
    ELSE LET ix == self.modify_vector_indices[n]
             md_v == self.mouse_down_vectors[n]
         IN  mouse_moved_loop(self,
                [values EXCEPT ![ix + 1] =
                    mouse_moved_value(self, v_pos_dir, md_pos, ix, md_v)],
                v_pos_dir, md_pos, n + 1)

\* Cursor::mouse_moved: the cursor after the call
Cursor_mouse_moved(self, mouse_x, mouse_y) ==
    [self EXCEPT !.mouse_pos_x = mouse_x, !.mouse_pos_y = mouse_y]

\* a variant of Cursor::mouse_moved that pushes the values it computes to the end
\* of the grid instead of overwriting the captured cells
Grid_mouse_moved_pushes(self, g) ==
    IF IsSome(self.mouse_down_on)
    THEN [g EXCEPT !.grid = @ \o
            [n \in 1..Min(Len(self.modify_vector_indices), Len(self.mouse_down_vectors)) |->
                mouse_moved_value(self, get_instances(g), Unwrap(self.mouse_down_on)[1],
                                  self.modify_vector_indices[n],
                                  self.mouse_down_vectors[n])]]
    ELSE g

\* a variant of Cursor::mouse_moved whose loop runs over every cell of the grid,
\* with the value captured first
Grid_mouse_moved_every_cell(self, g) ==
    IF IsSome(self.mouse_down_on) /\ self.modify_vector_indices # <<>>
                                  /\ self.mouse_down_vectors # <<>>
    THEN [g EXCEPT !.grid =
            [n \in 1..Len(g.grid) |->
                mouse_moved_value(self, get_instances(g), Unwrap(self.mouse_down_on)[1],
                                  n - 1, self.mouse_down_vectors[1])]]
    ELSE g

\* Cursor::mouse_moved: the grid after the call
Grid_mouse_moved(self, g) ==
    IF IsSome(self.mouse_down_on)
    THEN [g EXCEPT !.grid = mouse_moved_loop(self, g.grid, get_instances(g),
                                             Unwrap(self.mouse_down_on)[1], 1)]
    ELSE g

\* the loop of Cursor::mouse_down over the enumerated instances, from ix on:
\* the pairs (ix, grid[ix]) it pushes
RECURSIVE mouse_down_loop(_, _, _, _)
mouse_down_loop(self, g, instances, ix) ==
    IF ix >= Len(instances) THEN <<>>
    ELSE (IF FLt(Distance(self.pos, At(instances, ix)[1]), self.edit_mode.falloff_dist)
          THEN << <<ix, At(g.grid, ix)>> >>
          ELSE <<>>)
         \o mouse_down_loop(self, g, instances, ix + 1)

\* a variant of Cursor::mouse_down that does not clear the two lists before it
\* pushes
Cursor_mouse_down_appends(self, g) ==
    LET pushed == mouse_down_loop(self, g, get_instances(g), 0)
    IN  [self EXCEPT
            !.mouse_down_on = Some(<<self.pos, self.rot>>),
            !.modify_vector_indices = @ \o [n \in 1..Len(pushed) |-> pushed[n][1]],
            !.mouse_down_vectors = @ \o [n \in 1..Len(pushed) |-> pushed[n][2]]]

\* a variant of Cursor::mouse_down that captures every cell of the grid
Cursor_mouse_down_all(self, g) ==
    [self EXCEPT
        !.mouse_down_on = Some(<<self.pos, self.rot>>),
        !.modify_vector_indices = [n \in 1..num_instances(g) |-> n - 1],
        !.mouse_down_vectors = [n \in 1..num_instances(g) |-> g.grid[n]]]

\* Cursor::mouse_down
Cursor_mouse_down(self, g) ==
    LET pushed == mouse_down_loop(self, g, get_instances(g), 0)
    IN  [self EXCEPT
            !.mouse_down_on = Some(<<self.pos, self.rot>>),
            !.modify_vector_indices = [n \in 1..Len(pushed) |-> pushed[n][1]],
            !.mouse_down_vectors = [n \in 1..Len(pushed) |-> pushed[n][2]]]

\* a variant of Cursor::mouse_up that leaves the drag as it is
Cursor_mouse_up_keeps_drag(self) ==
    self

\* Cursor::mouse_up
Cursor_mouse_up(self) ==
    [self EXCEPT !.mouse_down_on = None, !.modify_vector_indices = <<>>]

-----------------------------------------------------------------------------
(* camera.rs *)

MatVec(m, v) == VAdd(VAdd(VScale(m[1], v[1]), VScale(m[2], v[2])), VScale(m[3], v[3]))
MatMul(a, b) == << MatVec(a, b[1]), MatVec(a, b[2]), MatVec(a, b[3]) >>

\* sine and cosine of an angle in degrees, for the multiples of 90 degrees
SinDeg(deg) ==
    CASE deg % F(360) = F(0) -> Zero
      [] deg % F(360) = F(90) -> One
      [] deg % F(360) = F(180) -> Zero
      [] deg % F(360) = F(270) -> -One
CosDeg(deg) == SinDeg(deg + F(90))

\* Quaternion::from_axis_angle, as the rotation matrix of the quaternion
from_axis_angle(axis, deg) ==
    LET c == CosDeg(deg)
        s == SinDeg(deg)
        t == FSub(One, c)
        x == axis[1]
        y == axis[2]
        z == axis[3]
    IN  << V3(FAdd(FMul(FMul(t, x), x), c),
              FAdd(FMul(FMul(t, x), y), FMul(s, z)),
              FSub(FMul(FMul(t, x), z), FMul(s, y))),
           V3(FSub(FMul(FMul(t, x), y), FMul(s, z)),
              FAdd(FMul(FMul(t, y), y), c),
              FAdd(FMul(FMul(t, y), z), FMul(s, x))),
           V3(FAdd(FMul(FMul(t, x), z), FMul(s, y)),
              FSub(FMul(FMul(t, y), z), FMul(s, x)),
              FAdd(FMul(FMul(t, z), z), c)) >>

\* Rotation::look_at for a quaternion, as the rotation matrix of the quaternion
look_at_rotation(dir, up) ==
    LET d == Normalize(dir)
        side == Normalize(Cross(up, d))
        u == Normalize(Cross(d, side))
    IN  Transpose(<<side, u, d>>)

Direction ==
    {"Up", "Down", "Forward", "Backward", "Left", "Right", "RotateLeft", "RotateRight"}

\* Camera::new (the cursor it owns is the variable cursor)
Camera_new(screen_width, screen_height) ==
    [screen_width |-> screen_width,
     screen_height |-> screen_height,
     pos |-> zero_v3,
     units_per_second |-> F(10),
     angle_per_second |-> F(45),
     rot |-> Identity3,
     look_at_distance |-> Some(<<zero_v3, F(5)>>)]

\* Camera::motion with Forward and Backward moving the position whether or not an
\* orbit target is set
Camera_motion_always_translates(self, direction, delta_t) ==
    LET r2 == Transpose(self.rot)
        fwd == r2[3]
        right == r2[1]
        up == r2[2]
        amount_units == FMul(delta_t, self.units_per_second)
        amount_angle == FMul(delta_t, self.angle_per_second)
    IN  CASE direction = "Up" ->
                [self EXCEPT !.pos = VAdd(self.pos, VScale(up, amount_units))]
          [] direction = "Down" ->
                [self EXCEPT !.pos = VSub(self.pos, VScale(up, amount_units))]
          [] direction = "Forward" ->
                [self EXCEPT !.pos = VAdd(self.pos, VScale(fwd, amount_units))]
          [] direction = "Backward" ->
                [self EXCEPT !.pos = VSub(self.pos, VScale(fwd, amount_units))]
          [] direction = "Left" ->
                [self EXCEPT !.pos = VAdd(self.pos, VScale(right, amount_units))]
          [] direction = "Right" ->
                [self EXCEPT !.pos = VSub(self.pos, VScale(right, amount_units))]
          [] direction = "RotateLeft" ->
                [self EXCEPT !.rot =
                    MatMul(self.rot, from_axis_angle(up, FNeg(amount_angle)))]
          [] direction = "RotateRight" ->
                [self EXCEPT !.rot =
                    MatMul(self.rot, from_axis_angle(up, amount_angle))]

\* Camera::motion
Camera_motion(self, direction, delta_t) ==
    LET r2 == Transpose(self.rot)
        fwd == r2[3]
        right == r2[1]
        up == r2[2]
        amount_units == FMul(delta_t, self.units_per_second)
        amount_angle == FMul(delta_t, self.angle_per_second)
        orbit == IsSome(self.look_at_distance)
        zoom(by) == Some(<<Unwrap(self.look_at_distance)[1],
                           FAdd(Unwrap(self.look_at_distance)[2], by)>>)
    IN  CASE direction = "Up" ->
                [self EXCEPT !.pos = VAdd(self.pos, VScale(up, amount_units))]
          [] direction = "Down" ->
                [self EXCEPT !.pos = VSub(self.pos, VScale(up, amount_units))]
          [] direction = "Forward" ->
                IF orbit
                THEN [self EXCEPT !.look_at_distance = zoom(FNeg(amount_units))]
                ELSE [self EXCEPT !.pos = VAdd(self.pos, VScale(fwd, amount_units))]
          [] direction = "Backward" ->
                IF orbit
                THEN [self EXCEPT !.look_at_distance = zoom(amount_units)]
                ELSE [self EXCEPT !.pos = VSub(self.pos, VScale(fwd, amount_units))]
          [] direction = "Left" ->
                [self EXCEPT !.pos = VAdd(self.pos, VScale(right, amount_units))]
          [] direction = "Right" ->
                [self EXCEPT !.pos = VSub(self.pos, VScale(right, amount_units))]
          [] direction = "RotateLeft" ->
                [self EXCEPT !.rot =
                    MatMul(self.rot, from_axis_angle(up, FNeg(amount_angle)))]
          [] direction = "RotateRight" ->
                [self EXCEPT !.rot =
                    MatMul(self.rot, from_axis_angle(up, amount_angle))]

\* Camera::get_view_matrix: the camera after the call
Camera_get_view_matrix(self) ==
    IF IsSome(self.look_at_distance)
    THEN LET look_at == Unwrap(self.look_at_distance)[1]
             distance == Unwrap(self.look_at_distance)[2]
             pos1 == IF VEq(look_at, self.pos)
                     THEN VAdd(self.pos, V3(Zero, Zero, -One))
                     ELSE self.pos
             diff == VSub(look_at, pos1)
             up_v == MatVec(Transpose(self.rot), V3(Zero, One, Zero))
         IN  [self EXCEPT !.pos = VSub(look_at, VScale(Normalize(diff), distance)),
                          !.rot = look_at_rotation(diff, up_v)]
    ELSE self

\* Camera::resize: the camera after the call
Camera_resize(self, screen_width, screen_height) ==
    [self EXCEPT !.screen_width = screen_width, !.screen_height = screen_height]

\* Camera::update_cursor: the cursor after the call
Camera_update_cursor(self, c) ==
    Cursor_update(c, self.screen_width, self.screen_height, self.pos, self.rot)

-----------------------------------------------------------------------------
(* poly7.rs, poly3.rs *)

(***************************************************************************)
(* The polynomial fit is modelled in exact arithmetic: an f32 is a         *)
(* fraction <<n, d>> in lowest terms with d > 0, or one of <<1, 0>>        *)
(* (+infinity), <<-1, 0>> (-infinity) and <<0, 0>> (NaN), with the IEEE    *)
(* rules for the results of x/0, 0/0, inf - inf and 0 * inf.  Rounding and *)
(* the sign of zero are not modelled.  A sequence built by a function      *)
(* constructor is concatenated with <<>> to have it evaluated at once.     *)
(***************************************************************************)

RECURSIVE Gcd(_, _)
Gcd(a, b) == IF b = 0 THEN Abs(a) ELSE Gcd(b, a % b)

\* the f32 n/d
Rat(n, d) ==
    IF d = 0 THEN <<Sign(n), 0>>
    ELSE LET g == Gcd(Abs(n), Abs(d))
         IN  <<Sign(d) * (n \div g), Abs(d) \div g>>

RInt(n) == <<n, 1>>
RNeg(a) == <<-a[1], a[2]>>

RAdd(a, b) ==
    IF a[2] = 0 /\ b[2] = 0 THEN (IF a = b THEN a ELSE <<0, 0>>)
    ELSE IF a[2] = 0 THEN a
    ELSE IF b[2] = 0 THEN b
    ELSE LET g == Gcd(a[2], b[2])
         IN  Rat(a[1] * (b[2] \div g) + b[1] * (a[2] \div g), (a[2] \div g) * b[2])

RMul(a, b) ==
    LET g1 == IF a[1] = 0 /\ b[2] = 0 THEN 1 ELSE Gcd(Abs(a[1]), b[2])
        g2 == IF b[1] = 0 /\ a[2] = 0 THEN 1 ELSE Gcd(Abs(b[1]), a[2])
    IN  Rat((a[1] \div g1) * (b[1] \div g2), (a[2] \div g2) * (b[2] \div g1))

RDiv(a, b) ==
    IF b[1] = 0 THEN (IF b[2] = 0 THEN <<0, 0>> ELSE Rat(a[1], 0))
    ELSE RMul(a, <<Sign(b[1]) * b[2], Abs(b[1])>>)

\* x.powi(j)
RECURSIVE powi(_, _)
powi(x, j) == IF j = 0 THEN RInt(1) ELSE RMul(powi(x, j - 1), x)

\* matrix_row_mul_add; a matrix is the sequence of its rows
matrix_row_mul_add(mul, m, from, into) ==
    [m EXCEPT ![into + 1] =
        [i \in 1..Len(m) |-> RAdd(m[into + 1][i], RMul(mul, m[from + 1][i]))] \o <<>>]

\* matrix_row_div
matrix_row_div(div, m, row) ==
    [m EXCEPT ![row + 1] = [i \in 1..Len(m) |-> RDiv(m[row + 1][i], div)] \o <<>>]

\* an inner loop of inverse on the pair <<m, res>> for row i: the rows j,
\* j + step, ... of the matrix, each with its pivot and its two calls of
\* matrix_row_mul_add
RECURSIVE inverse_rows(_, _, _, _)
inverse_rows(mr, i, j, step) ==
    IF j < 0 \/ j >= Len(mr[1]) THEN mr
    ELSE LET pivot == RDiv(RNeg(mr[1][j + 1][i + 1]), mr[1][i + 1][i + 1])
         IN  inverse_rows(<<matrix_row_mul_add(pivot, mr[1], i, j),
                            matrix_row_mul_add(pivot, mr[2], i, j)>>, i, j + step, step)

\* the first loop of inverse, from row i on
RECURSIVE inverse_down(_, _)
inverse_down(mr, i) ==
    IF i >= Len(mr[1]) THEN mr
    ELSE LET e == inverse_rows(mr, i, i + 1, 1)
             div == e[1][i + 1][i + 1]
         IN  inverse_down(<<matrix_row_div(div, e[1], i), matrix_row_div(div, e[2], i)>>,
                          i + 1)

\* the second loop of inverse, from row i down
RECURSIVE inverse_up(_, _)
inverse_up(mr, i) ==
    IF i < 0 THEN mr
    ELSE inverse_up(inverse_rows(mr, i, i - 1, -1), i - 1)

\* inverse without its second loop
inverse_first_loop_only(m) ==
    LET N == Len(m)
        identity == [i \in 1..N |->
                        [j \in 1..N |-> IF i = j THEN RInt(1) ELSE RInt(0)] \o <<>>] \o <<>>
    IN  inverse_down(<<m, identity>>, 0)[2]

\* inverse
inverse(m) ==
    LET N == Len(m)
        identity == [i \in 1..N |->
                        [j \in 1..N |-> IF i = j THEN RInt(1) ELSE RInt(0)] \o <<>>] \o <<>>
    IN  inverse_up(inverse_down(<<m, identity>>, 0), N - 1)[2]

\* multiply_vector
RECURSIVE dot_from(_, _, _)
dot_from(row, v, i) ==
    IF i > Len(row) THEN RInt(0)
    ELSE RAdd(RMul(row[i], v[i]), dot_from(row, v, i + 1))

multiply_vector(m, v) ==
    [row_index \in 1..Len(m) |-> dot_from(m[row_index], v, 1)] \o <<>>

\* from_points without the scan of the inverse
from_points_no_scan(points) ==
    LET N == Len(points)
        m == [i \in 1..N |-> [j \in 1..N |-> powi(points[i][1], j - 1)] \o <<>>] \o <<>>
    IN  Some(multiply_vector(inverse(m), [i \in 1..N |-> points[i][2]]))

\* Poly7::from_points (N = 8) and Poly3::from_points (N = 4): the coefficients from
\* the constant one up, or None; a point is <<x, y>>
from_points(points) ==
    LET N == Len(points)
        m == [i \in 1..N |-> [j \in 1..N |-> powi(points[i][1], j - 1)] \o <<>>] \o <<>>
        inv == inverse(m)
        is_finite(a) == a[2] # 0
        is_nan(a) == a = <<0, 0>>
        bad == \E x \in 1..N, y \in 1..N : ~is_finite(inv[x][y]) \/ is_nan(inv[x][y])
    IN  IF bad THEN None
        ELSE Some(multiply_vector(inv, [i \in 1..N |-> points[i][2]]))

\* Poly7::eval and Poly3::eval on the coefficients from the constant one up
RECURSIVE eval_from(_, _, _, _)
eval_from(coeffs, x, i, x_to_the_i) ==
    IF i > Len(coeffs) THEN RInt(0)
    ELSE RAdd(RMul(x_to_the_i, coeffs[i]), eval_from(coeffs, x, i + 1, RMul(x_to_the_i, x)))

eval(coeffs, x) == eval_from(coeffs, x, 1, RInt(1))

\* Gui::edit_poly, the sliders of the eight sample points; sliders[i] is the value
\* slider i was moved to, or None: the points handed to from_points
edit_poly_points(poly, sliders) ==
    LET xs == [i \in 1..Len(sliders) |-> Rat(i - 1, Len(sliders) - 1)] \o <<>>
        ys == [i \in 1..Len(sliders) |->
                  IF IsSome(sliders[i]) THEN Unwrap(sliders[i]) ELSE eval(poly, xs[i])] \o <<>>
    IN  [i \in 1..Len(sliders) |-> <<xs[i], ys[i]>>] \o <<>>

\* edit_poly with the moved sliders' values taken as the coefficients
edit_poly_takes_ys(poly, sliders) ==
    LET points == edit_poly_points(poly, sliders)
        changed == \E i \in 1..Len(sliders) : IsSome(sliders[i])
    IN  IF changed THEN [i \in 1..Len(sliders) |-> points[i][2]] \o <<>> ELSE poly

\* Gui::edit_poly: the polynomial after the call
edit_poly(poly, sliders) ==
    LET changed == \E i \in 1..Len(sliders) : IsSome(sliders[i])
        p == IF changed THEN from_points(edit_poly_points(poly, sliders)) ELSE None
    IN  IF changed /\ IsSome(p) THEN Unwrap(p) ELSE poly

-----------------------------------------------------------------------------
(* main.rs: the application state and the events of App::winit_update / App::update *)

\* cursor, grid (the force grid) and camera are the program's objects; edits counts
\* the mouse moves that changed the grid and events the wheel, motion and resize
\* events; session tells whether the last mouse-button operation, if any, was
\* mouse_down ("drag") or mouse_up ("released"); last is the last operation; call
\* is a call of a pure function: its name, its arguments and, once it has
\* returned, its result
VARIABLES cursor, grid, camera, edits, events, session, last, call

vars == <<cursor, grid, camera, edits, events, session, last, call>>

\* bounds of the model: the mouse moves that change the grid in one run (with the
\* camera at rest, and with the camera moving), the mouse-wheel, camera-motion and
\* resize events in one run, the keys held at once
MaxEdits == 2
AppEdits == 1
MaxEvents == 1
MaxKeys == 3

\* the window is InitialScreen pixels at start
InitialScreen == <<F(2), F(2)>>
ScreenSizes == {<<F(4), F(2)>>}

MouseXs == {F(1), (19 * Q) \div 10}
MouseYs == {F(1)}

Keys == {"Space", "LControl", "RControl", "LShift", "RShift", "W"}
\* pressed_keys: the held keys in the order they were pressed, at most MaxKeys
KeyLists ==
    {ks \in UNION {[1..n -> Keys] : n \in 0..MaxKeys} :
        \A i, j \in 1..Len(ks) : i # j => ks[i] # ks[j]}
\* one list of held keys for each (mode, relativity) process_input can produce
CoreKeyLists ==
    {<<>>, <<"Space">>, <<"LControl">>, <<"RShift">>,
     <<"Space", "LControl">>, <<"RShift", "Space">>}
AppKeyLists == {<<"Space">>}

ScrollDists == {F(1)}
MotionInputs == {<<"Forward", F(1) \div 10>>}

\* ParticleSystem::new: the force grid
force_grid_new ==
    LET bvr == F(bounding_volume_radius)
    IN  new_centered(vector_field_dimensions[1], vector_field_dimensions[2],
                     vector_field_dimensions[3],
                     [pos |-> V3(-bvr, -bvr, -bvr),
                      dir |-> V3(2 * bvr, 2 * bvr, 2 * bvr)])

NoCall == [fn |-> "none", args |-> <<>>, res |-> None]

\* the objects after construction: Cursor::new, ParticleSystem::new, and the
\* camera of Camera::new after the get_view_matrix of Renderer::init
InitObjects ==
    /\ cursor = Cursor_new
    /\ grid = force_grid_new
    /\ camera = Camera_get_view_matrix(Camera_new(InitialScreen[1], InitialScreen[2]))
    /\ edits = 0
    /\ events = 0
    /\ session = "none"
    /\ last = [op |-> "new", args |-> <<>>]

Init ==
    /\ InitObjects
    /\ call = NoCall

\* WindowEvent::CursorMoved: cursor.mouse_moved(grid, x, y)
MouseMoved(mouse_x, mouse_y) ==
    /\ cursor' = Cursor_mouse_moved(cursor, mouse_x, mouse_y)
    /\ grid' = Grid_mouse_moved(cursor, grid)
    /\ edits' = IF grid' = grid THEN edits ELSE edits + 1
    /\ last' = [op |-> "mouse_moved", args |-> <<>>]
    /\ UNCHANGED <<camera, events, session, call>>

\* WindowEvent::MouseInput, Pressed, Left: cursor.mouse_down(grid)
MouseDown ==
    /\ cursor' = Cursor_mouse_down(cursor, grid)
    /\ session' = "drag"
    /\ last' = [op |-> "mouse_down", args |-> <<>>]
    /\ UNCHANGED <<grid, camera, edits, events, call>>

\* WindowEvent::MouseInput, Released, Left: cursor.mouse_up()
MouseUp ==
    /\ cursor' = Cursor_mouse_up(cursor)
    /\ session' = "released"
    /\ last' = [op |-> "mouse_up", args |-> <<>>]
    /\ UNCHANGED <<grid, camera, edits, events, call>>

\* WindowEvent::MouseWheel
MouseWheel(scroll_dist) ==
    /\ cursor' = [cursor EXCEPT !.distance_from_camera = FAdd(@, scroll_dist)]
    /\ events' = events + 1
    /\ last' = [op |-> "mouse_wheel", args |-> <<scroll_dist>>]
    /\ UNCHANGED <<grid, camera, edits, session, call>>

\* Camera::update_cursor: cursor.update(screen_width, screen_height, pos, rot)
Update ==
    /\ cursor' = Camera_update_cursor(camera, cursor)
    /\ last' = [op |-> "update", args |-> <<>>]
    /\ UNCHANGED <<grid, camera, edits, events, session, call>>

\* cursor.process_input(&self.pressed_keys)
ProcessInput(keys) ==
    /\ cursor' = Cursor_process_input(cursor, keys)
    /\ last' = [op |-> "process_input", args |-> keys]
    /\ UNCHANGED <<grid, camera, edits, events, session, call>>

\* DrawPass::update_view_matrix: camera.get_view_matrix()
GetViewMatrix ==
    /\ camera' = Camera_get_view_matrix(camera)
    /\ last' = [op |-> "get_view_matrix", args |-> <<>>]
    /\ UNCHANGED <<cursor, grid, edits, events, session, call>>

\* App::update: camera.motion(direction, elapsed) for a pressed key
Motion(direction, delta_t) ==
    /\ camera' = Camera_motion(camera, direction, delta_t)
    /\ events' = events + 1
    /\ last' = [op |-> "motion", args |-> <<direction, delta_t>>]
    /\ UNCHANGED <<cursor, grid, edits, session, call>>

\* Renderer::resize: camera.resize(width, height)
Resize(screen_width, screen_height) ==
    /\ camera' = Camera_resize(camera, screen_width, screen_height)
    /\ cursor' = Camera_update_cursor(camera', cursor)
    /\ events' = events + 1
    /\ last' = [op |-> "resize", args |-> <<screen_width, screen_height>>]
    /\ UNCHANGED <<grid, edits, session, call>>

\* the calls of the Cursor API on the application's grid, the camera at rest
Next ==
    \/ \E mouse_x \in MouseXs, mouse_y \in MouseYs :
          MouseMoved(mouse_x, mouse_y) /\ edits' <= MaxEdits
    \/ MouseDown
    \/ MouseUp
    \/ Update
    \/ \E keys \in CoreKeyLists : ProcessInput(keys)

Spec == Init /\ [][Next]_vars

\* the events of the application: the Cursor API with the mouse wheel, the camera
\* motion and the window resize
NextApp ==
    \/ \E mouse_x \in MouseXs, mouse_y \in MouseYs :
          MouseMoved(mouse_x, mouse_y) /\ edits' <= AppEdits
    \/ MouseDown
    \/ MouseUp
    \/ Update
    \/ \E keys \in AppKeyLists : ProcessInput(keys)
    \/ \E scroll_dist \in ScrollDists : MouseWheel(scroll_dist) /\ events' <= MaxEvents
    \/ GetViewMatrix
    \/ \E m \in MotionInputs : Motion(m[1], m[2]) /\ events' <= MaxEvents
    \/ \E s \in ScreenSizes : Resize(s[1], s[2]) /\ events' <= MaxEvents

SpecApp == Init /\ [][NextApp]_vars

\* process_input called with every list of held keys
NextInput == \E keys \in KeyLists : ProcessInput(keys)

SpecInput == Init /\ [][NextInput]_vars

-----------------------------------------------------------------------------
(* EditMode::get_vector as a function of its arguments *)

GetVectorModes ==
    {[mode |-> m, ra |-> "Relative", falloff |-> f, falloff_dist |-> fd, strength |-> s] :
        m \in EditModeE, f \in Falloff, fd \in {F(1), F(8)}, s \in {F(1), F(2)}}
GetVectorValues == {V3(F(1), Zero, Zero), V3(Zero, F(2), Zero)}
GetVectorCells == {V3(-F(5), Zero, Zero), V3(F(5), Zero, Zero)}
GetVectorAnchors == {zero_v3, V3(F(5), Zero, Zero)}
GetVectorCursors == {zero_v3, V3(F(5), Zero, Zero), V3(Zero, F(3), Zero)}

InitGetVector ==
    /\ InitObjects
    /\ \E self \in GetVectorModes, v \in GetVectorValues, v_pos \in GetVectorCells,
          md_pos \in GetVectorAnchors, cursor_pos \in GetVectorCursors :
            call = [fn |-> "get_vector",
                    args |-> <<self, v, v_pos, md_pos, cursor_pos, Identity3>>,
                    res |-> None]

\* the call returns
GetVectorCall ==
    /\ call.fn = "get_vector"
    /\ call.res = None
    /\ call' = [call EXCEPT !.res = Some(get_vector(call.args[1], call.args[2],
                                call.args[3], call.args[4], call.args[5], call.args[6]))]
    /\ UNCHANGED <<cursor, grid, camera, edits, events, session, last>>

SpecGetVector == InitGetVector /\ [][GetVectorCall]_vars

-----------------------------------------------------------------------------
(* the frames of App::update between the calls of the Cursor API *)

\* App::update: the instance buffer of the vector field, from
\* force_grid.get_instances_raw(&cursor.modify_vector_indices)
UpdateInstanceBuffer ==
    /\ call' = [fn |-> "get_instances_raw", args |-> <<>>,
                res |-> Some(get_instances_raw(grid, cursor.modify_vector_indices))]
    /\ last' = [op |-> "update_instance_buffer", args |-> <<>>]
    /\ UNCHANGED <<cursor, grid, camera, edits, events, session>>

NextFrame ==
    \/ \E mouse_x \in MouseXs, mouse_y \in MouseYs :
          MouseMoved(mouse_x, mouse_y) /\ edits' <= AppEdits
    \/ MouseDown
    \/ MouseUp
    \/ Update
    \/ UpdateInstanceBuffer

SpecFrame == Init /\ [][NextFrame]_vars

-----------------------------------------------------------------------------
(* drags with the falloff settings of the public fields of EditMode, the button *)
(* pressed again without a release                                             *)

\* Cursor::new with edit_mode.falloff and edit_mode.falloff_dist set (no code of
\* the application changes them afterwards)
InitDrag ==
    /\ grid = force_grid_new
    /\ camera = Camera_get_view_matrix(Camera_new(InitialScreen[1], InitialScreen[2]))
    /\ \E falloff \in Falloff, falloff_dist \in {-F(1), Zero, F(1), F(6)} :
          cursor = [Cursor_new EXCEPT !.edit_mode.falloff = falloff,
                                      !.edit_mode.falloff_dist = falloff_dist]
    /\ edits = 0
    /\ events = 0
    /\ session = "none"
    /\ last = [op |-> "new", args |-> <<>>]
    /\ call = NoCall

NextDrag ==
    \/ \E mouse_x \in MouseXs, mouse_y \in MouseYs :
          MouseMoved(mouse_x, mouse_y) /\ edits' <= AppEdits
    \/ MouseDown
    \/ Update

SpecDrag == InitDrag /\ [][NextDrag]_vars

-----------------------------------------------------------------------------
(* the edit engine on a grid whose bounds the bounding-volume slider changes *)

BoundingVolumeSizes == {F(2)}

\* Gui::edit_bounding_volume_radius, the slider at val: bounds.set_centered(val)
SetCentered(val) ==
    /\ grid' = [grid EXCEPT !.bounds = set_centered(@, val)]
    /\ last' = [op |-> "set_centered", args |-> <<val>>]
    /\ UNCHANGED <<cursor, camera, edits, events, session, call>>

\* the grid is built by new_centered or by new_uniform
InitGridEdit ==
    /\ Init
    /\ \E g \in {force_grid_new,
                 new_uniform(vector_field_dimensions[1], vector_field_dimensions[2],
                             vector_field_dimensions[3], force_grid_new.bounds, zero_v3)} :
          grid = g

NextGridEdit ==
    \/ \E mouse_x \in MouseXs, mouse_y \in MouseYs :
          MouseMoved(mouse_x, mouse_y) /\ edits' <= MaxEdits
    \/ MouseDown
    \/ MouseUp
    \/ Update
    \/ \E val \in BoundingVolumeSizes : SetCentered(val)

SpecGridEdit == InitGridEdit /\ [][NextGridEdit]_vars

-----------------------------------------------------------------------------
(* Grid::get_indices and Grid::get_positions as functions of their arguments *)

\* the most cells along one axis of a grid
MaxDim == 2

GridSizes == (1..MaxDim) \X (1..MaxDim) \X (1..MaxDim)
GridBounds == [pos |-> V3(-F(10), -F(10), -F(10)), dir |-> V3(F(20), F(20), F(20))]
Grids == {new_centered(n[1], n[2], n[3], GridBounds) : n \in GridSizes}
GetIndicesCenters == {zero_v3, V3(F(5), Zero, Zero)}
GetIndicesRadii == {F(1), F(5), F(12)}

\* a call of get_positions, or two calls of get_indices with the same center and
\* radii r1 <= r2
InitGrid ==
    /\ InitObjects
    /\ \/ \E g \in Grids : call = [fn |-> "get_positions", args |-> <<g>>, res |-> None]
       \/ \E g \in Grids, center \in GetIndicesCenters,
             r1 \in GetIndicesRadii, r2 \in GetIndicesRadii :
               /\ r1 <= r2
               /\ call = [fn |-> "get_indices", args |-> <<g, center, r1, r2>>,
                          res |-> None]

\* get_positions returns
GetPositionsCall ==
    /\ call.fn = "get_positions"
    /\ call.res = None
    /\ call' = [call EXCEPT !.res = Some(get_positions(call.args[1]))]
    /\ UNCHANGED <<cursor, grid, camera, edits, events, session, last>>

\* the two calls of get_indices return
GetIndicesCall ==
    /\ call.fn = "get_indices"
    /\ call.res = None
    /\ call' = [call EXCEPT !.res =
                    Some(<<get_indices(call.args[1], call.args[2], call.args[3]),
                           get_indices(call.args[1], call.args[2], call.args[4])>>)]
    /\ UNCHANGED <<cursor, grid, camera, edits, events, session, last>>

NextGrid == GetPositionsCall \/ GetIndicesCall

SpecGrid == InitGrid /\ [][NextGrid]_vars

-----------------------------------------------------------------------------
(* from_points of Poly3 and Poly7 and Gui::edit_poly as functions of their   *)
(* arguments                                                                 *)

\* the x-coordinates of the points of a Poly3 are the integers -1 .. MaxNode
MaxNode == 2

\* a call of from_points with four points at any of the x-coordinates, equal ones
\* included, or with eight points at the sevenths of edit_poly, at integers or at
\* the sevenths from 1 down, pairwise distinct (a = b) or with the x-coordinate
\* of point b copied to point a; or a call of edit_poly with no slider, one
\* slider or all sliders moved
InitPoly ==
    LET PolyYs == {[i \in 1..8 |-> RInt(((i * i) % 5) - 2)],
                   [i \in 1..8 |-> Rat((3 * i) - 10, 4)]}
        Poly3Points ==
            {[i \in 1..4 |-> <<RInt(xs[i]), ys[i]>>] :
                xs \in [1..4 -> -1..MaxNode], ys \in PolyYs}
        Poly7Points ==
            {[i \in 1..8 |-> <<nodes[IF i = a THEN b ELSE i], ys[i]>>] :
                nodes \in {[i \in 1..8 |-> Rat(i - 1, 7)],
                           [i \in 1..8 |-> RInt(((3 * i) % 8) - 3)],
                           [i \in 1..8 |-> Rat(8 - i, 7)]},
                a \in 1..8, b \in {1, 4, 8}, ys \in PolyYs}
        Polys ==
            {[i \in 1..8 |-> RInt(0)],
             [i \in 1..8 |-> RInt(IF i = 1 THEN 1 ELSE IF i = 2 THEN -7 ELSE 0)],
             [i \in 1..8 |-> RInt(IF i = 1 THEN -2 ELSE IF i = 3 THEN 49 ELSE 0)]}
        Sliders ==
            {[i \in 1..8 |-> None]}
                \cup {[i \in 1..8 |-> IF i = k THEN Some(y) ELSE None] :
                        k \in 1..8, y \in {RInt(-10), Rat(5, 2)}}
                \cup {[i \in 1..8 |-> Some(ys[i])] : ys \in PolyYs}
    IN  /\ InitObjects
        /\ \/ \E points \in Poly3Points \cup Poly7Points :
                call = [fn |-> "from_points", args |-> <<points>>, res |-> None]
           \/ \E poly \in Polys, sliders \in Sliders :
                call = [fn |-> "edit_poly", args |-> <<poly, sliders>>, res |-> None]

\* from_points returns
FromPointsCall ==
    /\ call.fn = "from_points"
    /\ call.res = None
    /\ call' = [call EXCEPT !.res = Some(from_points(call.args[1]))]
    /\ UNCHANGED <<cursor, grid, camera, edits, events, session, last>>

\* edit_poly returns
EditPolyCall ==
    /\ call.fn = "edit_poly"
    /\ call.res = None
    /\ call' = [call EXCEPT !.res = Some(edit_poly(call.args[1], call.args[2]))]
    /\ UNCHANGED <<cursor, grid, camera, edits, events, session, last>>

NextPoly == FromPointsCall \/ EditPolyCall

SpecPoly == InitPoly /\ [][NextPoly]_vars

-----------------------------------------------------------------------------
(* the camera moved by the keys, in orbit around its target or free *)

\* the calls of Camera::motion in one run
MaxMotions == 2

\* Camera::new, with the orbit target of new or with none (the field is public)
InitCamera ==
    /\ cursor = Cursor_new
    /\ grid = force_grid_new
    /\ \E look_at_distance \in {Some(<<zero_v3, F(5)>>), None} :
          camera = [Camera_new(InitialScreen[1], InitialScreen[2])
                        EXCEPT !.look_at_distance = look_at_distance]
    /\ edits = 0
    /\ events = 0
    /\ session = "none"
    /\ last = [op |-> "new", args |-> <<>>]
    /\ call = NoCall

\* App::update for a held key: a frame of 0.1 s or 0.3 s, and of 2 s (a quarter
\* turn) for the rotations; DrawPass::update_view_matrix
NextCamera ==
    \/ \E direction \in Direction,
          delta_t \in {F(1) \div 10, (3 * Q) \div 10, F(2)} :
            /\ (direction \in {"RotateLeft", "RotateRight"}) <=> (delta_t = F(2))
            /\ Motion(direction, delta_t)
            /\ events' <= MaxMotions
    \/ GetViewMatrix

SpecCamera == InitCamera /\ [][NextCamera]_vars

-----------------------------------------------------------------------------
(* Cursor: the drag session (claims C1 - C11) *)

Dragging == IsSome(cursor.mouse_down_on)
CapturedCells == {cursor.modify_vector_indices[n] : n \in 1..Len(cursor.modify_vector_indices)}

\* C1: in every reachable state the two captured lists have the same length,
\* modify_vector_indices.len() == mouse_down_vectors.len()
C1_CapturedListsSameLength ==
    Len(cursor.modify_vector_indices) = Len(cursor.mouse_down_vectors)

\* C2: after mouse_up the anchor is absent and both captured lists are empty
C2_MouseUpClearsBothLists ==
    last.op = "mouse_up" =>
        /\ cursor.mouse_down_on = None
        /\ cursor.modify_vector_indices = <<>>
        /\ cursor.mouse_down_vectors = <<>>

\* C3: after a mouse_up and until the next mouse_down, no mouse_moved call changes
\* the value of any grid cell
C3_NoEditAfterMouseUp ==
    [][(session = "released" /\ last'.op = "mouse_moved") => grid' = grid]_vars

\* a mouse move after the drag that changed the grid has been released
C3_Witness ==
    /\ session = "released"
    /\ last.op = "mouse_moved"
    /\ edits > 0
    /\ cursor.mouse_down_vectors # <<>>

\* C4: mouse_down sets the anchor to the current (pos, rot), captures exactly the
\* cells at distance strictly less than falloff_dist from pos, each once, and
\* mouse_down_vectors[n] is the grid value of cell modify_vector_indices[n]
C4_MouseDownCaptures ==
    [][last'.op = "mouse_down" =>
        LET positions == get_positions(grid)
            within == {ix \in 0..(num_instances(grid) - 1) :
                          FLt(Distance(cursor.pos, At(positions, ix)),
                              cursor.edit_mode.falloff_dist)}
            indices == cursor'.modify_vector_indices
            values == cursor'.mouse_down_vectors
        IN  /\ cursor'.mouse_down_on = Some(<<cursor.pos, cursor.rot>>)
            /\ {indices[n] : n \in 1..Len(indices)} = within
            /\ Len(indices) = Cardinality(within)
            /\ Len(values) = Len(indices)
            /\ \A n \in 1..Len(indices) : values[n] = At(grid.grid, indices[n])]_vars

\* a mouse_down that captured one cell of two, with an edited value
C4_Witness ==
    /\ last.op = "mouse_down"
    /\ Len(cursor.modify_vector_indices) = 1
    /\ num_instances(grid) > 1
    /\ cursor.mouse_down_vectors[1] # At(force_grid_new.grid, cursor.modify_vector_indices[1])
    /\ cursor.mouse_down_vectors[1] = At(grid.grid, cursor.modify_vector_indices[1])

\* C5: a mouse_moved while Dragging sets grid[index], for every captured pair
\* (index, original_value), to displacement + original_value when Relative and to
\* displacement when Absolute, displacement being get_vector of the cell's value,
\* the cell's position, the anchor position, the cursor pos and the rotation basis
C5_MouseMovedWrites ==
    [][(Dragging /\ last'.op = "mouse_moved") =>
        \A n \in 1..Len(cursor.modify_vector_indices) :
            LET ix == cursor.modify_vector_indices[n]
                displacement == get_vector(cursor.edit_mode, At(grid.grid, ix),
                                           At(get_positions(grid), ix),
                                           Unwrap(cursor.mouse_down_on)[1],
                                           cursor.pos, cursor.rot)
            IN  At(grid'.grid, ix) =
                    IF cursor.edit_mode.ra = "Relative"
                    THEN VAdd(displacement, cursor.mouse_down_vectors[n])
                    ELSE displacement]_vars

\* a Relative mouse move of a drag whose original value and displacement are both
\* not zero
C5_Witness ==
    /\ last.op = "mouse_moved"
    /\ Dragging
    /\ cursor.edit_mode.ra = "Relative"
    /\ Len(cursor.modify_vector_indices) = 1
    /\ cursor.mouse_down_vectors[1] # zero_v3
    /\ At(grid.grid, cursor.modify_vector_indices[1]) # cursor.mouse_down_vectors[1]

\* C6: with mode Shift, relativity Absolute, falloff Abrupt and strength 1, a
\* mouse_moved during a drag sets every affected cell to exactly
\* cursor_pos - anchor_pos
C6_ShiftAbsoluteWrites ==
    [][(/\ Dragging
        /\ last'.op = "mouse_moved"
        /\ cursor.edit_mode.mode = "Shift"
        /\ cursor.edit_mode.ra = "Absolute"
        /\ cursor.edit_mode.falloff = "Abrupt"
        /\ cursor.edit_mode.strength = One) =>
        \A ix \in CapturedCells :
            At(grid'.grid, ix) = VSub(cursor.pos, Unwrap(cursor.mouse_down_on)[1])]_vars

\* a Shift, Absolute mouse move of a drag whose cursor has left the anchor
C6_Witness ==
    /\ last.op = "mouse_moved"
    /\ Dragging
    /\ cursor.edit_mode.mode = "Shift"
    /\ cursor.edit_mode.ra = "Absolute"
    /\ CapturedCells # {}
    /\ cursor.pos # Unwrap(cursor.mouse_down_on)[1]
    /\ \A ix \in CapturedCells :
          /\ At(grid.grid, ix) = VSub(cursor.pos, Unwrap(cursor.mouse_down_on)[1])
          /\ At(grid.grid, ix) # At(force_grid_new.grid, ix)

\* C7: get_vector in Rotate mode with cursor_pos == md_pos returns the input value
\* v exactly, for every falloff setting, falloff_dist and strength
C7_RotateAtAnchorReturnsV ==
    (/\ call.fn = "get_vector"
     /\ IsSome(call.res)
     /\ call.args[1].mode = "Rotate"
     /\ VEq(call.args[5], call.args[4])) =>
        Unwrap(call.res) = call.args[2]

\* C8: every mouse move recomputes the cursor's pos from the new mouse
\* coordinates, and the displacement a mouse move writes while Dragging is
\* computed from that recomputed pos
C8_MouseMovedRecomputesPos ==
    [][last'.op = "mouse_moved" =>
        LET recomputed == Camera_update_cursor(camera, cursor')
        IN  /\ cursor'.pos = recomputed.pos
            /\ Dragging => grid' = Grid_mouse_moved(recomputed, grid)]_vars

\* C9, as stated: after process_input(keys) relativity is Absolute if Space is in
\* keys and Relative otherwise; mode is Rotate if a control key is held, Shift if
\* a shift key is held, and Centered when neither is in keys
C9_ModeFollowsHeldKeys ==
    last.op = "process_input" =>
        LET keys == last.args
            held(isKey(_)) == \E n \in 1..Len(keys) : isKey(keys[n])
            isSpace(key) == key = "Space"
        IN  /\ cursor.edit_mode.ra = IF held(isSpace) THEN "Absolute" ELSE "Relative"
            /\ held(IsControl) => cursor.edit_mode.mode = "Rotate"
            /\ held(IsShift) => cursor.edit_mode.mode = "Shift"
            /\ (~held(IsControl) /\ ~held(IsShift)) => cursor.edit_mode.mode = "Centered"

\* C9, amended: after process_input(keys) relativity is Absolute if Space is in
\* keys and Relative otherwise; mode is Centered when neither a control nor a
\* shift key is in keys, and otherwise that of the last control or shift key of
\* keys: Rotate for a control key, Shift for a shift key
C9_ModeFollowsLastModifier ==
    last.op = "process_input" =>
        LET keys == last.args
            modifiers == {n \in 1..Len(keys) : IsControl(keys[n]) \/ IsShift(keys[n])}
            latest == CHOOSE n \in modifiers : \A m \in modifiers : m <= n
        IN  /\ cursor.edit_mode.ra =
                  IF \E n \in 1..Len(keys) : keys[n] = "Space"
                  THEN "Absolute" ELSE "Relative"
            /\ cursor.edit_mode.mode =
                  IF modifiers = {} THEN "Centered"
                  ELSE IF IsControl(keys[latest]) THEN "Rotate" ELSE "Shift"

\* process_input with a control key pressed before a shift key, and Space
C9_Witness ==
    /\ last.op = "process_input"
    /\ last.args = <<"LControl", "Space", "RShift">>
    /\ cursor.edit_mode.mode = "Shift"
    /\ cursor.edit_mode.ra = "Absolute"

\* C10: between a mouse_down and the next mouse_up, every operation other than
\* mouse_down and mouse_up leaves the anchor, the captured indices and the
\* captured original values unchanged, and the cursor Dragging
C10_DragEndsOnlyByMouseUp ==
    [][(session = "drag" /\ last'.op \notin {"mouse_down", "mouse_up"}) =>
        /\ Dragging'
        /\ cursor'.mouse_down_on = cursor.mouse_down_on
        /\ cursor'.modify_vector_indices = cursor.modify_vector_indices
        /\ cursor'.mouse_down_vectors = cursor.mouse_down_vectors]_vars

\* a drag with a captured cell that has seen a mouse move change the grid and
\* then a mouse-wheel, camera-motion or resize event
C10_Witness ==
    /\ session = "drag"
    /\ Dragging
    /\ last.op \in {"mouse_wheel", "motion", "resize"}
    /\ cursor.modify_vector_indices # <<>>
    /\ edits > 0

\* C11: a mouse_down with no cell within falloff_dist of the cursor leaves the
\* cursor Dragging with both captured lists empty, and every later mouse_moved of
\* that drag changes no grid cell
C11_EmptyCaptureEditsNothing ==
    [][/\ (/\ last'.op = "mouse_down"
           /\ \A ix \in 0..(num_instances(grid) - 1) :
                 ~FLt(Distance(cursor.pos, At(get_positions(grid), ix)),
                      cursor.edit_mode.falloff_dist)) =>
              /\ Dragging'
              /\ cursor'.modify_vector_indices = <<>>
              /\ cursor'.mouse_down_vectors = <<>>
       /\ (/\ session = "drag"
           /\ cursor.modify_vector_indices = <<>>
           /\ last'.op = "mouse_moved") =>
              grid' = grid]_vars

\* a mouse move to new coordinates in a drag that captured nothing, begun after an
\* earlier drag had changed the grid
C11_Witness ==
    /\ session = "drag"
    /\ last.op = "mouse_moved"
    /\ Dragging
    /\ cursor.modify_vector_indices = <<>>
    /\ cursor.mouse_down_vectors = <<>>
    /\ edits > 0

-----------------------------------------------------------------------------
(* Grid (claims C12 - C14) *)

Elements(seq) == {seq[n] : n \in 1..Len(seq)}

\* C12: for radii r1 <= r2 every index get_indices(center, r1) returns is also
\* returned by get_indices(center, r2), and a cell at distance exactly r from
\* center is not returned for radius r
C12_GetIndicesMonotone ==
    (call.fn = "get_indices" /\ IsSome(call.res)) =>
        LET g == call.args[1]
            center == call.args[2]
            positions == get_positions(g)
            at_distance(r) ==
                {ix \in 0..(num_instances(g) - 1) :
                    FEq(Distance(V3(At(positions, ix)[1], At(positions, ix)[2],
                                    At(positions, ix)[3]), center), r)}
        IN  /\ Elements(Unwrap(call.res)[1]) \subseteq Elements(Unwrap(call.res)[2])
            /\ at_distance(call.args[3]) \cap Elements(Unwrap(call.res)[1]) = {}
            /\ at_distance(call.args[4]) \cap Elements(Unwrap(call.res)[2]) = {}

\* two calls on the grid of 2 x 1 x 1 cells, whose cells are 5 away from the
\* center: none returned for radius 1 and for radius 5, both for radius 12
C12_Witness ==
    /\ call.fn = "get_indices"
    /\ IsSome(call.res)
    /\ call.args[1].size = <<2, 1, 1>>
    /\ call.args[2] = zero_v3
    /\ call.args[3] = F(5)
    /\ call.args[4] = F(12)
    /\ Unwrap(call.res) = << <<>>, <<0, 1>> >>

\* C13: the linear index i*ny*nz + j*nz + k of the cells (i, j, k) is unique and
\* lies in [0, nx*ny*nz); get_positions returns nx*ny*nz entries, and its entry
\* at that index is the position of cell (i, j, k)
C13_GetPositionsOrder ==
    (call.fn = "get_positions" /\ IsSome(call.res)) =>
        LET g == call.args[1]
            nx == g.size[1]
            ny == g.size[2]
            nz == g.size[3]
            cells == (0..(nx - 1)) \X (0..(ny - 1)) \X (0..(nz - 1))
            linear_index(c) == c[1] * ny * nz + c[2] * nz + c[3]
        IN  /\ \A c \in cells : linear_index(c) \in 0..(nx * ny * nz - 1)
            /\ \A c, d \in cells : linear_index(c) = linear_index(d) => c = d
            /\ Len(Unwrap(call.res)) = nx * ny * nz
            /\ \A c \in cells :
                  At(Unwrap(call.res), linear_index(c)) = cell_position(g, c[1], c[2], c[3])

\* get_positions of a grid with two cells along x and along z: entry 1 is the
\* cell (0, 0, 1), not the cell (1, 0, 0)
C13_Witness ==
    /\ call.fn = "get_positions"
    /\ IsSome(call.res)
    /\ call.args[1].size = <<2, 1, 2>>
    /\ Len(Unwrap(call.res)) = 4
    /\ At(Unwrap(call.res), 1) = cell_position(call.args[1], 0, 0, 1)
    /\ At(Unwrap(call.res), 1) # cell_position(call.args[1], 1, 0, 0)

-----------------------------------------------------------------------------
(* Polynomials (claims C15 - C17) *)

\* the x-coordinates of the points are pairwise distinct
DistinctXs(points) ==
    \A i \in 1..Len(points), j \in 1..Len(points) : i # j => points[i][1] # points[j][1]

C16_EqualXsRejected ==
    (call.fn = "from_points" /\ call.res # None /\ ~DistinctXs(call.args[1])) =>
        Unwrap(call.res) = None

\* from_points has returned None for eight points whose last x-coordinate is also
\* the first one, all others being distinct
C16_Witness ==
    /\ call.fn = "from_points"
    /\ call.res # None
    /\ Len(call.args[1]) = 8
    /\ call.args[1][8][1] = call.args[1][1][1]
    /\ DistinctXs(SubSeq(call.args[1], 1, 7))
    /\ Unwrap(call.res) = None

-----------------------------------------------------------------------------
(* Camera (claims C18 - C20) *)

\* C18: after get_view_matrix with an orbit target set, the distance of the
\* position from the target is the orbit distance, within a tenth of a unit
C18_OrbitDistanceKept ==
    (last.op = "get_view_matrix" /\ IsSome(camera.look_at_distance)) =>
        LET look_at == Unwrap(camera.look_at_distance)[1]
            distance == Unwrap(camera.look_at_distance)[2]
        IN  Abs(FSub(Distance(look_at, camera.pos), distance)) <= Q \div 10

\* C19: motion(Forward, dt) and motion(Backward, dt) with an orbit target set
\* take dt * units_per_second from, respectively add it to, the orbit distance
\* and change nothing else of the camera; with no orbit target they move the
\* position by that amount along forward, respectively against it, and change
\* nothing else
C19_ForwardBackwardZoomOrTranslate ==
    [][(last'.op = "motion" /\ last'.args[1] \in {"Forward", "Backward"}) =>
        LET amount == FMul(last'.args[2], camera.units_per_second)
            by == IF last'.args[1] = "Forward" THEN amount ELSE FNeg(amount)
            fwd == Transpose(camera.rot)[3]
        IN  IF IsSome(camera.look_at_distance)
            THEN camera' = [camera EXCEPT !.look_at_distance =
                                Some(<<Unwrap(camera.look_at_distance)[1],
                                       FSub(Unwrap(camera.look_at_distance)[2], by)>>)]
            ELSE camera' = [camera EXCEPT !.pos = VAdd(camera.pos, VScale(fwd, by))]]_vars

\* motion(Backward, dt) has enlarged the orbit distance of a camera that was moved
\* off its first position
C19_Witness ==
    /\ last.op = "motion"
    /\ last.args[1] = "Backward"
    /\ IsSome(camera.look_at_distance)
    /\ Unwrap(camera.look_at_distance)[2] > F(5)
    /\ camera.pos # zero_v3

\* C20: motion(Left, dt) moves the position by -dt * units_per_second along right
\* and motion(Right, dt) by +dt * units_per_second; motion(Up, dt) and
\* motion(Down, dt) move it by +dt * units_per_second and -dt * units_per_second
\* along up; orientation and orbit distance stay
C20_LeftRightUpDown ==
    [][(last'.op = "motion" /\ last'.args[1] \in {"Left", "Right", "Up", "Down"}) =>
        LET amount == FMul(last'.args[2], camera.units_per_second)
            r2 == Transpose(camera.rot)
            axis == IF last'.args[1] \in {"Left", "Right"} THEN r2[1] ELSE r2[2]
            by == IF last'.args[1] \in {"Right", "Up"} THEN amount ELSE FNeg(amount)
        IN  camera' = [camera EXCEPT !.pos = VAdd(camera.pos, VScale(axis, by))]]_vars

\* C21: get_view_matrix called with an orbit target set and the position equal
\* to the target moves the position by 1 along +Z before it normalizes
\* target - position: the position after the call is finite, is the target minus
\* orbit distance times the normalized difference to the moved position, and is
\* at the orbit distance from the target
C21_NudgeAlongPlusZ ==
    [][(/\ last'.op = "get_view_matrix"
        /\ IsSome(camera.look_at_distance)
        /\ VEq(Unwrap(camera.look_at_distance)[1], camera.pos)) =>
        LET look_at == Unwrap(camera.look_at_distance)[1]
            distance == Unwrap(camera.look_at_distance)[2]
            nudged == VAdd(camera.pos, V3(Zero, Zero, One))
        IN  /\ \A i \in 1..3 : IsFinite(camera'.pos[i])
            /\ camera'.pos = VSub(look_at, VScale(Normalize(VSub(look_at, nudged)), distance))
            /\ Distance(look_at, camera'.pos) = distance]_vars

-----------------------------------------------------------------------------
(* Cursor: the edits of a drag (claims C22 - C30) *)

\* C22: in Rotate mode a mouse_moved of a drag whose cursor pos equals the anchor
\* position leaves every grid value as it was before the call, Relative or
\* Absolute
C22_RotateAtAnchorKeepsGrid ==
    [][(/\ Dragging
        /\ last'.op = "mouse_moved"
        /\ cursor.edit_mode.mode = "Rotate"
        /\ VEq(cursor.pos, Unwrap(cursor.mouse_down_on)[1])) =>
        grid' = grid]_vars

\* C23: the instance buffer of a frame holds 12 floats for each cell, in index
\* order: the position, the value, 1, and the tint, which is (1, 1, 1, 1) for the
\* cells of the cursor's captured index list and (0.5, 0.5, 0.5, 0.2) for the
\* others; the cells with the full tint are the cells captured by the drag, and
\* none while no drag is active
C23_FullTintForCapturedCells ==
    last.op = "update_instance_buffer" =>
        LET raw == Unwrap(call.res)
            positions == get_positions(grid)
            tint(ix) == SubSeq(raw, (12 * ix) + 9, (12 * ix) + 12)
            full == {ix \in 0..(num_instances(grid) - 1) : tint(ix) = <<One, One, One, One>>}
        IN  /\ Len(raw) = 12 * num_instances(grid)
            /\ \A ix \in 0..(num_instances(grid) - 1) :
                  /\ SubSeq(raw, (12 * ix) + 1, (12 * ix) + 8)
                        = At(positions, ix) \o At(grid.grid, ix) \o <<One>>
                  /\ tint(ix) \in {<<One, One, One, One>>, <<Half, Half, Half, Q \div 5>>}
            /\ full = CapturedCells
            /\ ~Dragging => full = {}

\* a frame during a drag that captured the second cell only, after a mouse move
\* changed the grid
C23_Witness ==
    /\ last.op = "update_instance_buffer"
    /\ Dragging
    /\ CapturedCells = {1}
    /\ edits > 0
    /\ SubSeq(Unwrap(call.res), 21, 24) = <<One, One, One, One>>
    /\ SubSeq(Unwrap(call.res), 9, 12) = <<Half, Half, Half, Q \div 5>>

\* C24: mouse_moved leaves the value of every cell that is not in the captured
\* index list as it was, and mouse_down, mouse_up, update and process_input leave
\* every grid value as it was
C24_OnlyCapturedCellsChange ==
    [][/\ last'.op = "mouse_moved" =>
            \A ix \in (0..(Len(grid.grid) - 1)) \ CapturedCells :
                At(grid'.grid, ix) = At(grid.grid, ix)
       /\ last'.op \in {"mouse_down", "mouse_up", "update", "process_input"} =>
            grid'.grid = grid.grid]_vars

\* a mouse move of a drag has changed the captured second cell and the first
\* cell, which is not captured, has the value it was built with
C24_Witness ==
    /\ last.op = "mouse_moved"
    /\ Dragging
    /\ CapturedCells = {1}
    /\ At(grid.grid, 1) # At(force_grid_new.grid, 1)
    /\ At(grid.grid, 0) = At(force_grid_new.grid, 0)

\* C25: in every reachable state the captured index list is strictly increasing
\* and each of its entries is less than the length of the grid and of its
\* instance list
C25_CapturedIndicesInRange ==
    LET indices == cursor.modify_vector_indices
    IN  /\ \A n \in 1..(Len(indices) - 1) : indices[n] < indices[n + 1]
        /\ \A n \in 1..Len(indices) :
              /\ indices[n] >= 0
              /\ indices[n] < Len(grid.grid)
              /\ indices[n] < Len(get_instances(grid))

\* a mouse move of a second drag has changed the grid with two cells captured
C25_Witness ==
    /\ last.op = "mouse_moved"
    /\ Dragging
    /\ cursor.modify_vector_indices = <<0, 1>>
    /\ edits > 1

\* C26: the index list mouse_down captures is, element for element,
\* get_indices(pos, falloff_dist) of the grid at the call
C26_CaptureIsGetIndices ==
    [][last'.op = "mouse_down" =>
        cursor'.modify_vector_indices =
            get_indices(grid, cursor.pos, cursor.edit_mode.falloff_dist)]_vars

\* a mouse_down that captured the second of two cells only
C26_Witness ==
    /\ last.op = "mouse_down"
    /\ Len(grid.grid) = NX
    /\ cursor.modify_vector_indices = <<1>>
    /\ cursor.mouse_down_on = Some(<<cursor.pos, cursor.rot>>)

\* C27: in Shift or Centered mode a mouse_moved of a drag that follows a
\* mouse_moved, so with the same pos, anchor and edit mode, leaves the grid
\* unchanged: the edit does not accumulate
C27_ShiftCenteredDoNotAccumulate ==
    [][(/\ last.op = "mouse_moved"
        /\ last'.op = "mouse_moved"
        /\ Dragging
        /\ cursor.edit_mode.mode \in {"Shift", "Centered"}) =>
        grid' = grid]_vars

\* a Relative mouse move of a drag in Centered mode has changed a captured cell
\* whose captured value is not zero
C27_Witness ==
    /\ last.op = "mouse_moved"
    /\ Dragging
    /\ cursor.edit_mode.mode = "Centered"
    /\ cursor.edit_mode.ra = "Relative"
    /\ Len(cursor.modify_vector_indices) = 1
    /\ Len(cursor.mouse_down_vectors) = 1
    /\ cursor.mouse_down_vectors[1] # zero_v3
    /\ At(grid.grid, cursor.modify_vector_indices[1]) # cursor.mouse_down_vectors[1]

\* C28: at a mouse_moved of a drag with Linear falloff, falloff_dist and the
\* bounds being those of the mouse_down, the factor
\* 1 - |anchor - cell position| / falloff_dist of every captured cell is greater
\* than 0 and at most 1
C28_LinearFactorPositive ==
    [][(/\ Dragging
        /\ last'.op = "mouse_moved"
        /\ cursor.edit_mode.falloff = "Linear") =>
        \A ix \in CapturedCells :
            LET mag == Magnitude(VSub(Unwrap(cursor.mouse_down_on)[1],
                                      get_instances(grid)[ix + 1][1]))
                factor == FSub(One, FDiv(mag, cursor.edit_mode.falloff_dist))
            IN  FLt(Zero, factor) /\ ~FLt(One, factor)]_vars

\* a Linear mouse move of a drag has changed the grid, with a captured cell that
\* is not at the anchor
C28_Witness ==
    /\ last.op = "mouse_moved"
    /\ Dragging
    /\ cursor.edit_mode.falloff = "Linear"
    /\ edits > 0
    /\ \E ix \in CapturedCells :
          /\ get_instances(grid)[ix + 1][1] # Unwrap(cursor.mouse_down_on)[1]
          /\ At(grid.grid, ix) # At(force_grid_new.grid, ix)

\* C29: with falloff_dist <= 0 a mouse_down captures no cell, and a mouse_moved
\* changes no grid value, so that every grid value stays finite
C29_NoCaptureWithoutRadius ==
    [][~FLt(Zero, cursor.edit_mode.falloff_dist) =>
        /\ last'.op = "mouse_down" =>
              /\ cursor'.modify_vector_indices = <<>>
              /\ cursor'.mouse_down_vectors = <<>>
        /\ last'.op = "mouse_moved" =>
              /\ grid' = grid
              /\ \A n \in 1..Len(grid'.grid), i \in 1..3 : IsFinite(grid'.grid[n][i])]_vars

\* a mouse move of a drag with Linear falloff and falloff_dist 0, the cursor
\* having left the anchor
C29_Witness ==
    /\ last.op = "mouse_moved"
    /\ Dragging
    /\ cursor.edit_mode.falloff = "Linear"
    /\ cursor.edit_mode.falloff_dist = Zero
    /\ cursor.modify_vector_indices = <<>>
    /\ cursor.pos # Unwrap(cursor.mouse_down_on)[1]

\* C30: a mouse_down while a drag is active sets the anchor to the current
\* (pos, rot) and replaces both lists: the indices are those of the cells now
\* within falloff_dist of pos, each once and in increasing order, and the values
\* are the values these cells have now
C30_MouseDownWhileDragging ==
    [][(Dragging /\ last'.op = "mouse_down") =>
        LET instances == get_instances(grid)
            within == {ix \in 0..(Len(instances) - 1) :
                          FLt(Distance(cursor.pos, At(instances, ix)[1]),
                              cursor.edit_mode.falloff_dist)}
            indices == cursor'.modify_vector_indices
            values == cursor'.mouse_down_vectors
        IN  /\ cursor'.mouse_down_on = Some(<<cursor.pos, cursor.rot>>)
            /\ Elements(indices) = within
            /\ \A n \in 1..(Len(indices) - 1) : indices[n] < indices[n + 1]
            /\ Len(values) = Len(indices)
            /\ \A n \in 1..Len(indices) : values[n] = At(grid.grid, indices[n])]_vars

\* the button pressed again in a drag that had captured and changed both cells:
\* the lists hold the second cell only, with its changed value
C30_Witness ==
    /\ last.op = "mouse_down"
    /\ edits > 0
    /\ At(grid.grid, 0) # At(force_grid_new.grid, 0)
    /\ cursor.modify_vector_indices = <<1>>
    /\ cursor.mouse_down_vectors = <<At(grid.grid, 1)>>
    /\ At(grid.grid, 1) # At(force_grid_new.grid, 1)

====
